---- MODULE Spec2Model ----
(***************************************************************************)
(* Forward-pass logic of the two segmentation networks of the repository:  *)
(* UNet (src/ACDC/model/unet.py) and VNet (src/LA/code/networks/vnet.py).  *)
(*                                                                         *)
(* A tensor is a sequence over its batch dimension.  A feature sample is   *)
(* a record [val, drop]: val is one representative element value, drop is  *)
(* the set of dropout modules the sample has passed through (the random    *)
(* zeroing of nn.Dropout is recorded as this tag; the 0/1 mask of the      *)
(* "strong" mode is arithmetic on val).  A decoder output sample is the    *)
(* record [lv, x9drop] of the five pyramid samples it was decoded from     *)
(* and of whether the decoder's final dropout touched it.                  *)
(***************************************************************************)
EXTENDS Integers, Sequences, FiniteSets, TLC

\* Largest input batch size explored.
MaxBatch == 4

\* Number of pyramid levels the encoders return (unet.py:135, vnet.py:271).
NumLevels == 5

Levels == 1..NumLevels

Nets == {"UNet", "VNet"}

InputTypes == {"normal", "strong", "other"}

VARIABLES
    net,                \* which class was constructed
    ctor_has_dropout,   \* the has_dropout argument of VNet.__init__
    has_dropout,        \* self.has_dropout (VNet)
    pc,                 \* position of the current forward call
    input,              \* the input batch x
    turnoff_drop,       \* arguments of the current call
    need_fp,
    input_type,
    saved_has_dropout,  \* the local has_dropout of VNet.forward
    features,           \* encoder output, one tensor per level
    features1,
    features2,
    mask,
    weak_features,
    strong_features,
    complete_features,
    preds,              \* pred_u_s1_clean .. pred_complete, as computed so far
    result,             \* what the call returned
    log                 \* the encoder and decoder runs of the current call

VARIABLES
    pd_net,     \* which file's PertDropout was constructed
    pd_k,       \* its argument p, as the numerator of p = pd_k / Den
    pd_probs,   \* the two drop probabilities, in units of 1 / (2 * Den)
    pd_pc,      \* "new", "failed", "built", "loop" or "returned"
    pd_x0,      \* the list PertDropout.forward was called with
    pd_x,       \* that list object as it is now
    pd_rst,
    pd_single,  \* single_type
    pd_d        \* index of pert_dropout in self.dropouts

pertVars == <<pd_net, pd_k, pd_probs, pd_pc, pd_x0, pd_x, pd_rst, pd_single,
              pd_d>>

VARIABLES
    ct_class,    \* the class being constructed
    ct_norm,     \* its normalization argument
    ct_stages,   \* its n_stages argument (ConvBlock, ResidualConvBlock)
    ct_filters,  \* n_filters_out of a block, n_filters of VNet
    ct_gap,      \* pert_gap of VNet, as the numerator of pert_gap = ct_gap / Den
    ct_len,      \* len(params['feature_chns']) (Encoder, Decoder)
    ct_outcome   \* "none" before construction, then "ok" or the exception
                 \* (arguments a class does not take are held at a default)

ctorVars == <<ct_class, ct_norm, ct_stages, ct_filters, ct_gap, ct_len,
              ct_outcome>>

VARIABLES
    sh_net,    \* the network whose shapes are followed
    sh_cls,    \* class_num / n_classes
    sh_in,     \* shape of the input: [b, c, sp] with sp the spatial sizes
    sh_pc,     \* "encode", "decode", "out", "done" or "error"
    sh_feats,  \* shapes of the encoder's feature maps
    sh_x,      \* shape of the tensor the decoder is holding
    sh_fused,  \* <<upsampled, skip>> shape pairs fused so far
    sh_out     \* shape of the output

shapeVars == <<sh_net, sh_cls, sh_in, sh_pc, sh_feats, sh_x, sh_fused, sh_out>>

fwdVars == <<net, ctor_has_dropout, has_dropout, pc, input, turnoff_drop,
             need_fp, input_type, saved_has_dropout, features, features1,
             features2, mask, weak_features, strong_features,
             complete_features, preds, result, log>>

vars == <<fwdVars, pertVars, ctorVars, shapeVars>>

notFwd == <<pertVars, ctorVars, shapeVars>>

notPert == <<fwdVars, ctorVars, shapeVars>>

notCtor == <<fwdVars, pertVars, shapeVars>>

notShape == <<fwdVars, pertVars, ctorVars>>

-----------------------------------------------------------------------------
(* Tensor helpers                                                          *)

Max2(a, b) == IF a >= b THEN a ELSE b

\* Chunk2 with the piece size off by one (S \div 2 + 1 instead of ceil(S/2)).
Chunk2OffByOne(t) ==
    LET S  == Len(t)
        cs == S \div 2 + 1
    IN  IF S > cs THEN <<SubSeq(t, 1, cs), SubSeq(t, cs + 1, S)>>
                  ELSE <<SubSeq(t, 1, cs)>>

\* torch.chunk(t, 2) along dim 0: pieces of ceil(S/2); fewer than 2 pieces
\* when the second would be empty.
Chunk2(t) ==
    LET S  == Len(t)
        cs == (S + 1) \div 2
    IN  IF S > cs THEN <<SubSeq(t, 1, cs), SubSeq(t, cs + 1, S)>>
                  ELSE <<SubSeq(t, 1, cs)>>

\* torch.cat((a, b), dim=0)
Cat(a, b) == a \o b

\* Broadcasting of the batch dimension: sizes agree or one of them is 1.
Broadcastable(n, m) == n = m \/ n = 1 \/ m = 1

BIdx(b, n) == IF n = 1 THEN 1 ELSE b

\* nn.Dropout*d applied to a tensor (not in place).
Dropout(t, tag) ==
    [b \in 1..Len(t) |-> [val |-> t[b].val, drop |-> t[b].drop \cup {tag}]]

\* f * m for a feature tensor f and a 0/1 tensor m.
MulMask(f, m) ==
    [b \in 1..Max2(Len(f), Len(m)) |->
        [val  |-> f[BIdx(b, Len(f))].val * m[BIdx(b, Len(m))],
         drop |-> f[BIdx(b, Len(f))].drop]]

\* 1 - mask
OneMinus(m) == [b \in 1..Len(m) |-> 1 - m[b]]

\* a + b for two feature tensors.
AddT(a, b) ==
    [i \in 1..Max2(Len(a), Len(b)) |->
        [val  |-> a[BIdx(i, Len(a))].val + b[BIdx(i, Len(b))].val,
         drop |-> a[BIdx(i, Len(a))].drop \cup b[BIdx(i, Len(b))].drop]]

-----------------------------------------------------------------------------
(* Encoder and decoder                                                     *)

\* The element the (fixed) convolution weights compute at level l from
\* input sample v.
EncVal(l, v) == 10 * v + l - 1

\* Encoder.forward / VNet.encoder: five levels, each with the input's batch;
\* VNet drops x5 when self.has_dropout.
Encoder(n, x, hd) ==
    [l \in Levels |->
        [b \in 1..Len(x) |->
            [val  |-> EncVal(l, x[b]),
             drop |-> IF n = "VNet" /\ l = NumLevels /\ hd THEN {"x5"} ELSE {}]]]

\* X9Dropped with no_drop ignored.
X9DroppedIgnoringNoDrop(n, no_drop, hd) == n = "VNet" /\ hd

\* Whether VNet.decoder applies self.dropout to x9.
X9Dropped(n, no_drop, hd) == n = "VNet" /\ ~no_drop /\ hd

\* Decoder.forward / VNet.decoder on a list of five level tensors.
Decoder(n, feats, no_drop, hd) ==
    [b \in 1..Len(feats[1]) |->
        [lv     |-> [l \in Levels |-> feats[l][b]],
         x9drop |-> X9Dropped(n, no_drop, hd)]]

NoResult == [kind |-> "none", v |-> <<>>]

EncEvent(hd) == [op |-> "encoder", arg |-> "input", hd |-> hd]

DecEvent(arg, hd) == [op |-> "decoder", arg |-> arg, hd |-> hd]

-----------------------------------------------------------------------------
(* PertDropout                                                             *)

\* p ranges over the multiples of 1 / Den in [0, 1].
Den == 6

\* Largest number of feature maps passed to PertDropout.forward.
MaxMaps == 3

\* One, in the unit the probabilities are kept in.
ProbOne == 2 * Den

\* PertProbs with the 3D bounds exchanged (weak = top, strong = bottom) and
\* the 2D factors exchanged.
PertProbsSwapped(n, k) ==
    IF n = "UNet" THEN <<3 * k, k>> ELSE <<Den + k, Den - k>>

\* The probabilities PertDropout.__init__ hands to its two dropouts, weak
\* first: p * 0.5 and p * 1.5 (unet.py 51-52), 0.5 - p / 2 and 0.5 + p / 2
\* (vnet.py 359-360, 371-372).
PertProbs(n, k) ==
    IF n = "UNet" THEN <<k, 3 * k>> ELSE <<Den - k, Den + k>>

\* nn.Dropout*d.__init__ raises ValueError unless 0 <= p <= 1.
ValidProb(u) == 0 <= u /\ u <= ProbOne

\* Whether PertDropout(p) constructs.
PertBuilt(n, k) == \A j \in 1..2 : ValidProb(PertProbs(n, k)[j])

\* self.dropouts, weak first.
DropTags == <<"weak", "strong">>

\* pert_dropout(feat) writing its result into the list it reads.
PertApplyInPlace(x, i, tag) ==
    [x |-> [x EXCEPT ![i] = Dropout(x[i], tag)], out |-> Dropout(x[i], tag)]

\* perted = pert_dropout(feat): a new tensor, x untouched.
PertApply(x, i, tag) == [x |-> x, out |-> Dropout(x[i], tag)]

\* A list of n feature maps of batch size 2.
FeatureList(n) ==
    [l \in 1..n |-> [b \in 1..2 |-> [val |-> 10 * (b - 1) + l, drop |-> {}]]]

PertIdle ==
    /\ pd_net = "UNet"
    /\ pd_k = 0
    /\ pd_probs = <<0, 0>>
    /\ pd_pc = "new"
    /\ pd_x0 = <<>>
    /\ pd_x = <<>>
    /\ pd_rst = <<>>
    /\ pd_single = <<>>
    /\ pd_d = 1

\* unet.py 47-54, vnet.py 356-375
PertConstruct(n, k) ==
    /\ pd_pc = "new"
    /\ pd_net' = n
    /\ pd_k' = k
    /\ pd_probs' = PertProbs(n, k)
    /\ pd_pc' = (IF PertBuilt(n, k) THEN "built" ELSE "failed")
    /\ UNCHANGED <<pd_x0, pd_x, pd_rst, pd_single, pd_d>>
    /\ UNCHANGED notPert

PertConstructAny == \E n \in Nets, k \in 0..Den : PertConstruct(n, k)

\* unet.py 59-60, vnet.py 380-381
PertForward(n) ==
    /\ pd_pc \in {"built", "returned"}
    /\ pd_x0' = FeatureList(n)
    /\ pd_x' = FeatureList(n)
    /\ pd_rst' = <<>>
    /\ pd_single' = <<>>
    /\ pd_d' = 1
    /\ pd_pc' = "loop"
    /\ UNCHANGED <<pd_net, pd_k, pd_probs>>
    /\ UNCHANGED notPert

PertForwardAny == \E n \in 0..MaxMaps : PertForward(n)

\* unet.py 63-65, vnet.py 384-386
PertInner ==
    /\ pd_pc = "loop"
    /\ pd_d <= Len(DropTags)
    /\ Len(pd_single) < Len(pd_x)
    /\ LET r == PertApply(pd_x, Len(pd_single) + 1, DropTags[pd_d])
       IN  /\ pd_x' = r.x
           /\ pd_single' = Append(pd_single, r.out)
    /\ UNCHANGED <<pd_net, pd_k, pd_probs, pd_pc, pd_x0, pd_rst, pd_d>>
    /\ UNCHANGED notPert

\* unet.py 66, vnet.py 387
PertOuter ==
    /\ pd_pc = "loop"
    /\ pd_d <= Len(DropTags)
    /\ Len(pd_single) = Len(pd_x)
    /\ pd_rst' = Append(pd_rst, pd_single)
    /\ pd_single' = <<>>
    /\ pd_d' = pd_d + 1
    /\ UNCHANGED <<pd_net, pd_k, pd_probs, pd_pc, pd_x0, pd_x>>
    /\ UNCHANGED notPert

\* unet.py 67, vnet.py 388
PertReturn ==
    /\ pd_pc = "loop"
    /\ pd_d > Len(DropTags)
    /\ pd_pc' = "returned"
    /\ UNCHANGED <<pd_net, pd_k, pd_probs, pd_x0, pd_x, pd_rst, pd_single,
                   pd_d>>
    /\ UNCHANGED notPert

PertNext ==
    \/ PertConstructAny
    \/ PertForwardAny
    \/ PertInner
    \/ PertOuter
    \/ PertReturn

-----------------------------------------------------------------------------
(* Constructors of the building blocks                                     *)

\* Largest n_stages explored.
MaxStages == 3

\* Largest len(feature_chns) explored.
MaxChns == 7

ValidNorms == {"none", "batchnorm", "groupnorm", "instancenorm"}

Norms == ValidNorms \cup {"layernorm", ""}

FilterCounts == {8, 16}

VNetClasses == {"ConvBlock", "ResidualConvBlock", "DownsamplingConvBlock",
                "UpsamplingDeconvBlock", "Upsampling", "VNet"}

UNetClasses == {"Encoder", "Decoder"}

\* nn.GroupNorm(num_groups=16, num_channels=c) raises ValueError unless 16
\* divides c.
GroupNormOutcome(c) == IF c % 16 = 0 THEN "ok" ELSE "ValueError"

\* NormOutcome with the final elif dropped: an unknown name adds no layer.
NormOutcomeNoAssert(norm, c) ==
    IF norm = "batchnorm" THEN "ok"
    ELSE IF norm = "groupnorm" THEN GroupNormOutcome(c)
    ELSE "ok"

\* The if/elif chain on normalization of ConvBlock, ResidualConvBlock and
\* Upsampling (vnet.py 30-37, 59-66, 155-162).
NormOutcome(norm, c) ==
    IF norm = "batchnorm" THEN "ok"
    ELSE IF norm = "groupnorm" THEN GroupNormOutcome(c)
    ELSE IF norm = "instancenorm" THEN "ok"
    ELSE IF norm # "none" THEN "AssertionError"
    ELSE "ok"

\* The chain of DownsamplingConvBlock and UpsamplingDeconvBlock
\* (vnet.py 85-100, 116-135).
StridedNormOutcome(norm, c) ==
    IF norm # "none"
    THEN IF norm = "batchnorm" THEN "ok"
         ELSE IF norm = "groupnorm" THEN GroupNormOutcome(c)
         ELSE IF norm = "instancenorm" THEN "ok"
         ELSE "AssertionError"
    ELSE "ok"

\* for i in range(n_stages) of ConvBlock / ResidualConvBlock, from stage i.
RECURSIVE StagesFrom(_, _, _, _)
StagesFrom(i, n_stages, c, norm) ==
    IF i >= n_stages THEN "ok"
    ELSE IF NormOutcome(norm, c) # "ok" THEN NormOutcome(norm, c)
    ELSE StagesFrom(i + 1, n_stages, c, norm)

\* Outcome of constructing one building block of vnet.py.
BlockInit(class, n_stages, c, norm) ==
    CASE class \in {"ConvBlock", "ResidualConvBlock"} ->
              StagesFrom(0, n_stages, c, norm)
      [] class \in {"DownsamplingConvBlock", "UpsamplingDeconvBlock"} ->
              StridedNormOutcome(norm, c)
      [] class = "Upsampling" -> NormOutcome(norm, c)

\* The blocks VNet.__init__ constructs, in order, as <<class, n_stages,
\* n_filters_out / n_filters>> (vnet.py 188-246).
VNetBlocks ==
    << <<"ConvBlock", 1, 1>>,  <<"DownsamplingConvBlock", 0, 2>>,
       <<"ConvBlock", 2, 2>>,  <<"DownsamplingConvBlock", 0, 4>>,
       <<"ConvBlock", 3, 4>>,  <<"DownsamplingConvBlock", 0, 8>>,
       <<"ConvBlock", 3, 8>>,  <<"DownsamplingConvBlock", 0, 16>>,
       <<"ConvBlock", 3, 16>>, <<"UpsamplingDeconvBlock", 0, 8>>,
       <<"ConvBlock", 3, 8>>,  <<"UpsamplingDeconvBlock", 0, 4>>,
       <<"ConvBlock", 3, 4>>,  <<"UpsamplingDeconvBlock", 0, 2>>,
       <<"ConvBlock", 2, 2>>,  <<"UpsamplingDeconvBlock", 0, 1>>,
       <<"ConvBlock", 1, 1>> >>

RECURSIVE VNetBlocksFrom(_, _, _)
VNetBlocksFrom(j, n_filters, norm) ==
    IF j > Len(VNetBlocks) THEN "ok"
    ELSE LET blk == VNetBlocks[j]
             out == BlockInit(blk[1], blk[2], blk[3] * n_filters, norm)
         IN  IF out # "ok" THEN out
             ELSE VNetBlocksFrom(j + 1, n_filters, norm)

\* VNet.__init__ (vnet.py 173-249): PertDropout first, then the blocks.
VNetInit(n_filters, norm, gap) ==
    IF ~PertBuilt("VNet", gap) THEN "ValueError"
    ELSE VNetBlocksFrom(1, n_filters, norm)

\* The number of entries Encoder and Decoder assert feature_chns to have.
FeatureChnsLen == 5

\* Encoder.__init__ / Decoder.__init__ (unet.py 117, 146).
CoderInit(len) == IF len = FeatureChnsLen THEN "ok" ELSE "AssertionError"

CtorIdle ==
    /\ ct_class = "ConvBlock"
    /\ ct_norm = "none"
    /\ ct_stages = 0
    /\ ct_filters = 16
    /\ ct_gap = 0
    /\ ct_len = 0
    /\ ct_outcome = "none"

\* vnet.py 19-40, 48-72
ConstructStaged(class, n_stages, c, norm) ==
    /\ class \in {"ConvBlock", "ResidualConvBlock"}
    /\ ct_class' = class
    /\ ct_stages' = n_stages
    /\ ct_filters' = c
    /\ ct_norm' = norm
    /\ ct_outcome' = BlockInit(class, n_stages, c, norm)
    /\ ct_gap' = 0
    /\ ct_len' = 0
    /\ UNCHANGED notCtor

\* vnet.py 81-104, 112-139, 147-165
ConstructStrided(class, c, norm) ==
    /\ class \in {"DownsamplingConvBlock", "UpsamplingDeconvBlock",
                  "Upsampling"}
    /\ ct_class' = class
    /\ ct_filters' = c
    /\ ct_norm' = norm
    /\ ct_outcome' = BlockInit(class, 0, c, norm)
    /\ ct_stages' = 0
    /\ ct_gap' = 0
    /\ ct_len' = 0
    /\ UNCHANGED notCtor

\* vnet.py 173-249
ConstructVNet(n_filters, norm, gap) ==
    /\ ct_class' = "VNet"
    /\ ct_filters' = n_filters
    /\ ct_norm' = norm
    /\ ct_gap' = gap
    /\ ct_outcome' = VNetInit(n_filters, norm, gap)
    /\ ct_stages' = 0
    /\ ct_len' = 0
    /\ UNCHANGED notCtor

\* unet.py 109-127, 139-158
ConstructCoder(class, len) ==
    /\ class \in UNetClasses
    /\ ct_class' = class
    /\ ct_len' = len
    /\ ct_outcome' = CoderInit(len)
    /\ ct_norm' = "none"
    /\ ct_stages' = 0
    /\ ct_filters' = 16
    /\ ct_gap' = 0
    /\ UNCHANGED notCtor

ConstructStagedAny ==
    \E class \in {"ConvBlock", "ResidualConvBlock"}, n \in 0..MaxStages,
       c \in FilterCounts, norm \in Norms :
        ConstructStaged(class, n, c, norm)

ConstructStridedAny ==
    \E class \in {"DownsamplingConvBlock", "UpsamplingDeconvBlock",
                  "Upsampling"},
       c \in FilterCounts, norm \in Norms :
        ConstructStrided(class, c, norm)

ConstructVNetAny ==
    \E c \in FilterCounts, norm \in Norms, gap \in 0..Den :
        ConstructVNet(c, norm, gap)

ConstructCoderAny ==
    \E class \in UNetClasses, len \in 0..MaxChns : ConstructCoder(class, len)

CtorNext ==
    \/ ConstructStagedAny
    \/ ConstructStridedAny
    \/ ConstructVNetAny
    \/ ConstructCoderAny

-----------------------------------------------------------------------------
(* Tensor shapes through encoder and decoder                               *)

\* Spatial sizes explored: the multiples of 4 up to 4 * MaxUnits.
MaxUnits == 12

\* Largest batch size explored for shapes.
MaxShapeBatch == 2

SpatialSizes == {4 * j : j \in 1..MaxUnits}

ClassCounts == {2, 4}

\* Spatial dimensions: 2 for UNet (Conv2d), 3 for VNet (Conv3d).
Dims(n) == IF n = "UNet" THEN 2 ELSE 3

\* feature_chns of UNet (unet.py 180).
UNetChns == <<16, 32, 64, 128, 256>>

\* n_filters of VNet (vnet.py 177) and its multiple at each level.
NFilters == 16

VNetMult == <<1, 2, 4, 8, 16>>

\* Channels of pyramid level l.
Chns(n, l) == IF n = "UNet" THEN UNetChns[l] ELSE NFilters * VNetMult[l]

\* Input channels: UNet(1, class_num) as used in unet.py 239, n_channels of
\* VNet as used in vnet.py 394.
InChns == 1

\* nn.MaxPool2d(2) (unet.py 75) and nn.Conv3d(kernel 2, stride 2, padding 0)
\* (vnet.py 87, 99): 0 stands for a size the layer rejects.
DownSize(n, d) ==
    IF n = "UNet" THEN d \div 2
    ELSE IF d < 2 THEN 0 ELSE (d - 2) \div 2 + 1

\* UpSize without the doubling.
UpSizeSame(n, d) == d

\* nn.Upsample(scale_factor=2) (unet.py 93) and nn.ConvTranspose3d(kernel 2,
\* stride 2) (vnet.py 118): (d - 1) * 2 + 2 for the latter.
UpSize(n, d) == IF n = "UNet" THEN 2 * d ELSE (d - 1) * 2 + 2

DownSp(n, sp) == [i \in 1..Len(sp) |-> DownSize(n, sp[i])]

UpSp(n, sp) == [i \in 1..Len(sp) |-> UpSize(n, sp[i])]

\* Encoder.forward (unet.py 129-135) / VNet.encoder (vnet.py 253-273): the
\* shapes of the levels from l on, given the shape of level l; the list is
\* cut short where a downsampling rejects its input.
RECURSIVE EncShapes(_, _, _)
EncShapes(n, l, shp) ==
    IF l = NumLevels THEN <<shp>>
    ELSE LET sp == DownSp(n, shp.sp)
         IN  IF \E i \in 1..Len(sp) : sp[i] < 1 THEN <<shp>>
             ELSE <<shp>> \o
                  EncShapes(n, l + 1,
                            [b |-> shp.b, c |-> Chns(n, l + 1), sp |-> sp])

\* The pyramid level decoder stage k fuses with (unet.py 167-170,
\* vnet.py 282-295).
SkipLevel(k) == NumLevels - k

\* The upsampled tensor of stage k: conv1x1 / transposed convolution to the
\* skip level's channels, spatial sizes doubled (unet.py 101-103,
\* vnet.py 219-242).
Upsampled(n, k, x) ==
    [b |-> x.b, c |-> Chns(n, SkipLevel(k)), sp |-> UpSp(n, x.sp)]

\* torch.cat([x2, x1], dim=1) needs equal batch and spatial sizes
\* (unet.py 104); x_up + x_skip needs every dimension to broadcast
\* (vnet.py 283-295).
FuseOk(n, up, skip) ==
    IF n = "UNet"
    THEN up.b = skip.b /\ up.sp = skip.sp
    ELSE /\ Broadcastable(up.b, skip.b)
         /\ Broadcastable(up.c, skip.c)
         /\ \A i \in 1..Len(up.sp) : Broadcastable(up.sp[i], skip.sp[i])

\* Shape of the fused tensor.
Fused(n, up, skip) ==
    IF n = "UNet"
    THEN [b |-> up.b, c |-> skip.c + up.c, sp |-> up.sp]
    ELSE [b  |-> Max2(up.b, skip.b),
          c  |-> Max2(up.c, skip.c),
          sp |-> [i \in 1..Len(up.sp) |-> Max2(up.sp[i], skip.sp[i])]]

\* Input channels of the ConvBlock after the fusion: in_channels2 * 2
\* (unet.py 98), the skip level's channels (vnet.py 223-246).
ConvInChns(n, k) ==
    IF n = "UNet" THEN 2 * Chns(n, SkipLevel(k)) ELSE Chns(n, SkipLevel(k))

NoShape == [b |-> 0, c |-> 0, sp |-> <<>>]

ShapeIdle ==
    /\ sh_net = "UNet"
    /\ sh_cls = 2
    /\ sh_in = NoShape
    /\ sh_pc = "idle"
    /\ sh_feats = <<>>
    /\ sh_x = NoShape
    /\ sh_fused = <<>>
    /\ sh_out = NoShape

ShapeInit ==
    /\ sh_net \in Nets
    /\ sh_cls \in ClassCounts
    /\ sh_in \in [b : 1..MaxShapeBatch, c : {InChns},
                  sp : [1..Dims(sh_net) -> SpatialSizes]]
    /\ sh_pc = "encode"
    /\ sh_feats = <<>>
    /\ sh_x = NoShape
    /\ sh_fused = <<>>
    /\ sh_out = NoShape

\* unet.py 129-135, vnet.py 253-273
ShapeEncode ==
    /\ sh_pc = "encode"
    /\ LET fs == EncShapes(sh_net, 1,
                           [b |-> sh_in.b, c |-> Chns(sh_net, 1),
                            sp |-> sh_in.sp])
       IN  /\ sh_feats' = fs
           /\ IF Len(fs) = NumLevels
              THEN sh_x' = fs[NumLevels] /\ sh_pc' = "decode"
              ELSE sh_x' = sh_x /\ sh_pc' = "error"
    /\ UNCHANGED <<sh_net, sh_cls, sh_in, sh_fused, sh_out>>
    /\ UNCHANGED notShape

\* One decoder stage: unet.py 100-105 via 167-170, vnet.py 282-296.
ShapeDecodeStage ==
    /\ sh_pc = "decode"
    /\ LET k    == Len(sh_fused) + 1
           up   == Upsampled(sh_net, k, sh_x)
           skip == sh_feats[SkipLevel(k)]
       IN  /\ sh_fused' = Append(sh_fused, <<up, skip>>)
           /\ IF /\ FuseOk(sh_net, up, skip)
                 /\ Fused(sh_net, up, skip).c = ConvInChns(sh_net, k)
              THEN /\ sh_x' = [Fused(sh_net, up, skip)
                                  EXCEPT !.c = Chns(sh_net, SkipLevel(k))]
                   /\ sh_pc' = (IF k = NumLevels - 1 THEN "out" ELSE "decode")
              ELSE /\ sh_x' = sh_x
                   /\ sh_pc' = "error"
    /\ UNCHANGED <<sh_net, sh_cls, sh_in, sh_feats, sh_out>>
    /\ UNCHANGED notShape

\* out_conv: unet.py 171-172, vnet.py 301-302
ShapeOutConv ==
    /\ sh_pc = "out"
    /\ sh_out' = [sh_x EXCEPT !.c = sh_cls]
    /\ sh_pc' = "done"
    /\ UNCHANGED <<sh_net, sh_cls, sh_in, sh_feats, sh_x, sh_fused>>
    /\ UNCHANGED notShape

ShapeNext ==
    \/ ShapeEncode
    \/ ShapeDecodeStage
    \/ ShapeOutConv

-----------------------------------------------------------------------------
(* Construction                                                            *)

FwdInit ==
    /\ net \in Nets
    /\ ctor_has_dropout \in (IF net = "VNet" THEN BOOLEAN ELSE {FALSE})
    /\ has_dropout = ctor_has_dropout
    /\ pc = "idle"
    /\ input = <<>>
    /\ turnoff_drop = FALSE
    /\ need_fp = FALSE
    /\ input_type = "normal"
    /\ saved_has_dropout = FALSE
    /\ features = <<>>
    /\ features1 = <<>>
    /\ features2 = <<>>
    /\ mask = <<>>
    /\ weak_features = <<>>
    /\ strong_features = <<>>
    /\ complete_features = <<>>
    /\ preds = <<>>
    /\ result = NoResult
    /\ log = <<>>

-----------------------------------------------------------------------------
(* forward                                                                 *)

\* EntryHasDropout without the clearing of the flag.
EntryHasDropoutKept(td, hd) == hd

\* The value self.has_dropout has after the first lines of VNet.forward.
EntryHasDropout(td, hd) == IF td THEN FALSE ELSE hd

\* A forward call begins (a previous call has returned or raised).
\* vnet.py 304-307; UNet.forward has no turnoff_drop.
Call(B, td, nfp, it) ==
    /\ pc \in {"idle", "done", "raised"}
    /\ net = "UNet" => td = FALSE
    /\ input' = [b \in 1..B |-> b - 1]
    /\ turnoff_drop' = td
    /\ need_fp' = nfp
    /\ input_type' = it
    /\ saved_has_dropout' = (IF td THEN has_dropout ELSE FALSE)
    /\ has_dropout' = EntryHasDropout(td, has_dropout)
    /\ features' = <<>>
    /\ features1' = <<>>
    /\ features2' = <<>>
    /\ mask' = <<>>
    /\ weak_features' = <<>>
    /\ strong_features' = <<>>
    /\ complete_features' = <<>>
    /\ preds' = <<>>
    /\ result' = NoResult
    /\ log' = <<>>
    /\ pc' = "encode"
    /\ UNCHANGED notFwd
    /\ UNCHANGED <<net, ctor_has_dropout>>

\* Dispatch with every input_type other than "strong" treated as "normal".
DispatchElseNormal(nfp, it) ==
    IF nfp /\ it = "strong" THEN "split"
    ELSE IF nfp THEN "normal"
    ELSE "default"

\* Where forward goes after the encoder.
Dispatch(nfp, it) ==
    IF nfp /\ it = "normal" THEN "normal"
    ELSE IF nfp /\ it = "strong" THEN "split"
    ELSE "default"

\* unet.py 190, vnet.py 308
Encode ==
    /\ pc = "encode"
    /\ features' = Encoder(net, input, has_dropout)
    /\ log' = Append(log, EncEvent(has_dropout))
    /\ pc' = Dispatch(need_fp, input_type)
    /\ UNCHANGED notFwd
    /\ UNCHANGED <<net, ctor_has_dropout, has_dropout, input, turnoff_drop,
                   need_fp, input_type, saved_has_dropout, features1,
                   features2, mask, weak_features, strong_features,
                   complete_features, preds, result>>

\* Combined with the perturbed copy concatenated first.
CombinedPertFirst(feats) ==
    [l \in Levels |-> Cat(Dropout(feats[l], "fp"), feats[l])]

\* The batch-concatenated clean and perturbed features of "normal" mode.
Combined(feats) == [l \in Levels |-> Cat(feats[l], Dropout(feats[l], "fp"))]

\* no_drop as "normal" mode passes it to the decoder (vnet.py 315).
NormalNoDrop == TRUE

\* unet.py 193-195, vnet.py 313-316: returns without reaching line 350.
NormalDecode ==
    /\ pc = "normal"
    /\ LET outs == Decoder(net, Combined(features), NormalNoDrop, has_dropout)
       IN  result' = [kind |-> "tuple", v |-> Chunk2(outs)]
    /\ log' = Append(log, DecEvent("combined", has_dropout))
    /\ pc' = "done"
    /\ UNCHANGED notFwd
    /\ UNCHANGED <<net, ctor_has_dropout, has_dropout, input, turnoff_drop,
                   need_fp, input_type, saved_has_dropout, features,
                   features1, features2, mask, weak_features,
                   strong_features, complete_features, preds>>

\* unet.py 200-205, vnet.py 321-326: f1, f2 = feats.chunk(2) raises
\* ValueError when chunk returns a single piece.
StrongSplit ==
    /\ pc = "split"
    /\ IF \E l \in Levels : Len(Chunk2(features[l])) < 2
       THEN /\ pc' = "raised"
            /\ UNCHANGED <<features1, features2>>
       ELSE /\ features1' = [l \in Levels |-> Chunk2(features[l])[1]]
            /\ features2' = [l \in Levels |-> Chunk2(features[l])[2]]
            /\ pc' = "mask"
    /\ UNCHANGED notFwd
    /\ UNCHANGED <<net, ctor_has_dropout, has_dropout, input, turnoff_drop,
                   need_fp, input_type, saved_has_dropout, features, mask,
                   weak_features, strong_features, complete_features, preds,
                   result, log>>

\* StrongF with the mask itself instead of its complement.
StrongFSameMask(f2, m) == MulMask(f2, m)

WeakF(f1, m) == MulMask(f1, m)

StrongF(f2, m) == MulMask(f2, OneMinus(m))

CompleteF(w, s) == AddT(w, s)

\* unet.py 207-223, vnet.py 328-338: one mask per level, of f1's shape;
\* f2 * (1 - mask) raises RuntimeError when the batch sizes do not broadcast.
StrongMask ==
    /\ pc = "mask"
    /\ \E m \in [Levels -> [1..Len(features1[1]) -> {0, 1}]] :
         IF \A l \in Levels : Broadcastable(Len(features2[l]), Len(m[l]))
         THEN /\ mask' = m
              /\ weak_features' = [l \in Levels |-> WeakF(features1[l], m[l])]
              /\ strong_features' =
                    [l \in Levels |-> StrongF(features2[l], m[l])]
              /\ complete_features' =
                    [l \in Levels |->
                        CompleteF(WeakF(features1[l], m[l]),
                                  StrongF(features2[l], m[l]))]
              /\ pc' = "decode"
         ELSE /\ pc' = "raised"
              /\ UNCHANGED <<mask, weak_features, strong_features,
                             complete_features>>
    /\ UNCHANGED notFwd
    /\ UNCHANGED <<net, ctor_has_dropout, has_dropout, input, turnoff_drop,
                   need_fp, input_type, saved_has_dropout, features,
                   features1, features2, preds, result, log>>

\* StrongOrder with the weak and strong runs exchanged.
StrongOrderSwapped == <<"features1", "features2", "strong", "weak", "complete">>

\* The order in which "strong" mode decodes its five feature lists.
StrongOrder == <<"features1", "features2", "weak", "strong", "complete">>

StrongList(k) ==
    CASE StrongOrder[k] = "features1" -> features1
      [] StrongOrder[k] = "features2" -> features2
      [] StrongOrder[k] = "weak"      -> weak_features
      [] StrongOrder[k] = "strong"    -> strong_features
      [] StrongOrder[k] = "complete"  -> complete_features

\* unet.py 226-230, vnet.py 341-345: one decoder run per step.
StrongDecode ==
    /\ pc = "decode"
    /\ Len(preds) < Len(StrongOrder)
    /\ LET k == Len(preds) + 1
       IN  /\ preds' = Append(preds, Decoder(net, StrongList(k), FALSE,
                                             has_dropout))
           /\ log' = Append(log, DecEvent(StrongOrder[k], has_dropout))
    /\ UNCHANGED notFwd
    /\ UNCHANGED <<net, ctor_has_dropout, has_dropout, pc, input,
                   turnoff_drop, need_fp, input_type, saved_has_dropout,
                   features, features1, features2, mask, weak_features,
                   strong_features, complete_features, result>>

\* unet.py 233, vnet.py 347: returns without reaching line 350.
StrongReturn ==
    /\ pc = "decode"
    /\ Len(preds) = Len(StrongOrder)
    /\ result' = [kind |-> "tuple", v |-> preds]
    /\ pc' = "done"
    /\ UNCHANGED notFwd
    /\ UNCHANGED <<net, ctor_has_dropout, has_dropout, input, turnoff_drop,
                   need_fp, input_type, saved_has_dropout, features,
                   features1, features2, mask, weak_features,
                   strong_features, complete_features, preds, log>>

\* unet.py 234, vnet.py 349
DefaultDecode ==
    /\ pc = "default"
    /\ preds' = <<Decoder(net, features, FALSE, has_dropout)>>
    /\ log' = Append(log, DecEvent("features", has_dropout))
    /\ pc' = "restore"
    /\ UNCHANGED notFwd
    /\ UNCHANGED <<net, ctor_has_dropout, has_dropout, input, turnoff_drop,
                   need_fp, input_type, saved_has_dropout, features,
                   features1, features2, mask, weak_features,
                   strong_features, complete_features, result>>

\* unet.py 235, vnet.py 350-352
DefaultReturn ==
    /\ pc = "restore"
    /\ has_dropout' = (IF turnoff_drop THEN saved_has_dropout ELSE has_dropout)
    /\ result' = [kind |-> "tensor", v |-> preds[1]]
    /\ pc' = "done"
    /\ UNCHANGED notFwd
    /\ UNCHANGED <<net, ctor_has_dropout, input, turnoff_drop, need_fp,
                   input_type, saved_has_dropout, features, features1,
                   features2, mask, weak_features, strong_features,
                   complete_features, preds, log>>

CallAny ==
    \E B \in 1..MaxBatch, td \in BOOLEAN, nfp \in BOOLEAN, it \in InputTypes :
        Call(B, td, nfp, it)

Next ==
    \/ CallAny
    \/ Encode
    \/ NormalDecode
    \/ StrongSplit
    \/ StrongMask
    \/ StrongDecode
    \/ StrongReturn
    \/ DefaultDecode
    \/ DefaultReturn

\* No network constructed: the state of the forward machinery while another
\* component is exercised.
FwdIdle ==
    /\ net = "UNet"
    /\ ctor_has_dropout = FALSE
    /\ has_dropout = FALSE
    /\ pc = "idle"
    /\ input = <<>>
    /\ turnoff_drop = FALSE
    /\ need_fp = FALSE
    /\ input_type = "normal"
    /\ saved_has_dropout = FALSE
    /\ features = <<>>
    /\ features1 = <<>>
    /\ features2 = <<>>
    /\ mask = <<>>
    /\ weak_features = <<>>
    /\ strong_features = <<>>
    /\ complete_features = <<>>
    /\ preds = <<>>
    /\ result = NoResult
    /\ log = <<>>

Init == FwdInit /\ PertIdle /\ CtorIdle /\ ShapeIdle

PertInit == FwdIdle /\ PertIdle /\ CtorIdle /\ ShapeIdle

CtorInit == FwdIdle /\ PertIdle /\ CtorIdle /\ ShapeIdle

ShapesInit == FwdIdle /\ PertIdle /\ CtorIdle /\ ShapeInit

SpecShape == ShapesInit /\ [][ShapeNext]_vars

SpecCtor == CtorInit /\ [][CtorNext]_vars

SpecPert == PertInit /\ [][PertNext]_vars

Spec == Init /\ [][Next]_vars

-----------------------------------------------------------------------------
(* Properties of forward                                                   *)

Returned == pc = "done"

\* The mode the flags of the call select.
Mode ==
    IF need_fp /\ input_type = "normal" THEN "normal"
    ELSE IF need_fp /\ input_type = "strong" THEN "split"
    ELSE "default"

B0 == Len(input)

\* The five pyramid samples output sample b of tensor t was decoded from.
DecodedFrom(t, feats) ==
    /\ Len(t) = Len(feats[1])
    /\ \A b \in 1..Len(t) : \A l \in Levels : t[b].lv[l] = feats[l][b]

\* C1: the shape of what forward returns is fixed by need_fp and input_type:
\* one tensor without need_fp, a 2-tuple in "normal" mode, a 5-tuple (clean-1,
\* clean-2, weak, strong, complete) in "strong" mode, and one tensor decoded
\* from the unperturbed encoder features for any other input_type.
C1_ResultShape ==
    Returned =>
        IF ~need_fp
        THEN result.kind = "tensor"
        ELSE IF input_type = "normal"
        THEN result.kind = "tuple" /\ Len(result.v) = 2
        ELSE IF input_type = "strong"
        THEN /\ result.kind = "tuple"
             /\ Len(result.v) = 5
             /\ DecodedFrom(result.v[1], features1)
             /\ DecodedFrom(result.v[2], features2)
             /\ DecodedFrom(result.v[3], weak_features)
             /\ DecodedFrom(result.v[4], strong_features)
             /\ DecodedFrom(result.v[5], complete_features)
        ELSE /\ result.kind = "tensor"
             /\ DecodedFrom(result.v, features)

C1_Witness ==
    /\ Returned
    /\ need_fp
    /\ input_type = "other"
    /\ result.kind = "tensor"
    /\ net = "UNet"

\* C2: after any sequence of VNet.forward calls that return, has_dropout
\* equals the value given at construction.
C2_HasDropoutRestored ==
    (net = "VNet" /\ Returned) => has_dropout = ctor_has_dropout

\* The encoder and decoder runs of the call, by the list each ran on.
LogArgs == [i \in 1..Len(log) |-> log[i].arg]

\* C3: every call runs the encoder once, before any decoder run; a call that
\* returns has run the decoder once in the default mode, once in "normal"
\* mode (on the concatenated features) and five times in "strong" mode, in
\* the order clean-1, clean-2, weak, strong, complete.
C3_EncoderOnceThenDecoders ==
    /\ pc \notin {"idle", "encode"} => (Len(log) >= 1 /\ log[1].op = "encoder")
    /\ \A i \in 2..Len(log) : log[i].op = "decoder"
    /\ Returned =>
          CASE Mode = "default" ->
                    /\ LogArgs = <<"input", "features">>
                    /\ DecodedFrom(result.v, features)
            [] Mode = "normal" ->
                    /\ LogArgs = <<"input", "combined">>
                    /\ Len(result.v[1]) + Len(result.v[2]) = 2 * B0
            [] Mode = "split" ->
                    /\ LogArgs = <<"input", "features1", "features2", "weak",
                                   "strong", "complete">>
                    /\ DecodedFrom(result.v[3], weak_features)
                    /\ DecodedFrom(result.v[4], strong_features)

C3_Witness ==
    /\ Returned
    /\ Mode = "split"
    /\ Len(log) = 6
    /\ net = "VNet"

\* C4: in "strong" mode, at every level and element, weak = f1 * mask,
\* strong = f2 * (1 - mask) with a 0/1 mask, so at most one of the two is
\* non-zero and exactly one is where f1 and f2 are both non-zero; complete is
\* f1 where the mask is 1 and f2 where it is 0; the two clean predictions are
\* decoded from f1 and f2 as the encoder produced them.
C4_ComplementaryMask ==
    (Mode = "split" /\ pc \in {"decode", "done"}) =>
        /\ \A l \in Levels : \A b \in 1..Len(features1[l]) :
              LET m  == mask[l][b]
                  f1 == features1[l][b]
                  f2 == features2[l][BIdx(b, Len(features2[l]))]
                  w  == weak_features[l][b]
                  s  == strong_features[l][b]
                  c  == complete_features[l][b]
              IN  /\ m \in {0, 1}
                  /\ w.val = f1.val * m
                  /\ s.val = f2.val * (1 - m)
                  /\ w.val = 0 \/ s.val = 0
                  /\ (f1.val # 0 /\ f2.val # 0) => (w.val # 0 \/ s.val # 0)
                  /\ c.val = (IF m = 1 THEN f1.val ELSE f2.val)
                  /\ f1 = features[l][b]
                  /\ f2 = features[l][Len(features1[l])
                                      + BIdx(b, Len(features2[l]))]
        /\ Len(preds) >= 1 => DecodedFrom(preds[1], features1)
        /\ Len(preds) >= 2 => DecodedFrom(preds[2], features2)

C4_Witness ==
    /\ Returned
    /\ Mode = "split"
    /\ B0 = 4
    /\ mask[1] = <<1, 0>>
    /\ complete_features[1][1].val = features1[1][1].val
    /\ complete_features[1][2].val = features2[1][2].val

\* C8: in "normal" mode, for every batch size B >= 1, the two returned
\* outputs have batch size B each; the first is decoded from the clean
\* features and the second from their dropout-perturbed copies.
C8_NormalHalves ==
    (Returned /\ Mode = "normal") =>
        /\ Len(result.v) = 2
        /\ Len(result.v[1]) = B0
        /\ Len(result.v[2]) = B0
        /\ DecodedFrom(result.v[1], features)
        /\ DecodedFrom(result.v[2],
                       [l \in Levels |-> Dropout(features[l], "fp")])
        /\ \A b \in 1..B0 : \A l \in Levels :
              /\ "fp" \notin result.v[1][b].lv[l].drop
              /\ "fp" \in result.v[2][b].lv[l].drop
              /\ result.v[2][b].lv[l].val = EncVal(l, input[b])

C8_Witness ==
    /\ Returned
    /\ Mode = "normal"
    /\ B0 = 3
    /\ Len(result.v[2]) = 3

\* The statement of C9 for a batch size.
StrongHalvesEqual ==
    /\ \A l \in Levels :
          /\ Len(features1[l]) = Len(features2[l])
          /\ Len(features1[l]) + Len(features2[l]) = B0
    /\ pc \in {"decode", "done"} =>
          \A l \in Levels :
              /\ Len(mask[l]) = Len(features2[l])
              /\ \A b \in 1..Len(features2[l]) :
                    strong_features[l][b].val =
                        features2[l][b].val * (1 - mask[l][b])
    /\ \A k \in 1..Len(preds) : 2 * Len(preds[k]) = B0

\* C9 as stated: in "strong" mode, for every batch size B >= 1, the two
\* halves have equal batch size and all five predictions have batch size B/2.
C9_AnyBatch ==
    (Returned /\ Mode = "split") => StrongHalvesEqual

\* C9: in "strong" mode, for every even batch size B >= 2, the features are
\* split into two halves of batch size B/2 each, the mask of f1's shape
\* applies element for element to f2, and all five predictions have batch
\* size B/2.
C9_EvenBatch ==
    (Mode = "split" /\ pc \in {"mask", "decode", "done"} /\ B0 % 2 = 0) =>
        StrongHalvesEqual

C9_Witness ==
    /\ Returned
    /\ Mode = "split"
    /\ B0 = 4
    /\ Len(preds) = 5
    /\ Len(preds[5]) = 2

\* The output tensors the call has produced: the decoder outputs so far and
\* the members of what it returned.
Outputs ==
    {preds[k] : k \in 1..Len(preds)}
        \cup (IF result.kind = "tensor" THEN {result.v}
              ELSE {result.v[k] : k \in 1..Len(result.v)})

\* Positions of a call from its first line up to, not including, the
\* statement after its last decoder run.
BeforeRestore == {"encode", "normal", "split", "mask", "decode", "default"}

\* C11: a VNet.forward call with turnoff_drop=True, whatever has_dropout was
\* before it, runs its encoder and every decoder with has_dropout cleared, so
\* neither the dropout on x5 nor the one on x9 is applied in any mode; the
\* flag is False from before the encoder run until after the last decoder
\* run.
C11_TurnoffDropsNothing ==
    (net = "VNet" /\ turnoff_drop /\ pc # "idle") =>
        /\ \A i \in 1..Len(log) : ~log[i].hd
        /\ pc \in BeforeRestore \cup {"restore", "raised"} => ~has_dropout
        /\ pc \in {"restore", "done"} => Len(log) >= 2
        /\ \A l \in 1..Len(features) : \A b \in 1..Len(features[l]) :
              "x5" \notin features[l][b].drop
        /\ \A t \in Outputs : \A b \in 1..Len(t) :
              /\ ~t[b].x9drop
              /\ \A l \in Levels : "x5" \notin t[b].lv[l].drop

C11_Witness ==
    /\ net = "VNet"
    /\ turnoff_drop
    /\ saved_has_dropout
    /\ ctor_has_dropout
    /\ Returned
    /\ Mode = "split"
    /\ Len(log) = 6
    /\ ~log[1].hd
    /\ ~result.v[5][1].x9drop

\* The value self.has_dropout has while the decoders of the call run: the
\* first lines of forward clear it under turnoff_drop and nothing sets it
\* before the last decoder run.
DecodeTimeHasDropout == IF pc = "done" /\ Mode = "default"
                        THEN log[2].hd
                        ELSE has_dropout

\* C12: in VNet the decoder's dropout on x9 is applied exactly when
\* has_dropout is true at decode time and the decoder was called without
\* no_drop: never in "normal" mode, and in the default mode and in all five
\* decoder runs of "strong" mode (the two clean ones included) if and only
\* if has_dropout is true.
C12_FinalDropout ==
    (net = "VNet" /\ pc \in {"decode", "restore", "done"}) =>
        /\ \A i \in 2..Len(log) : log[i].hd = DecodeTimeHasDropout
        /\ turnoff_drop => ~DecodeTimeHasDropout
        /\ (~turnoff_drop) => DecodeTimeHasDropout = has_dropout
        /\ \A t \in Outputs : \A b \in 1..Len(t) :
              t[b].x9drop = (Mode # "normal" /\ DecodeTimeHasDropout)
        /\ Mode = "split" =>
              \A k \in 1..Len(preds) : \A b \in 1..Len(preds[k]) :
                  preds[k][b].x9drop = log[k + 1].hd

C12_Witness ==
    /\ net = "VNet"
    /\ Returned
    /\ Mode = "split"
    /\ has_dropout
    /\ Len(result.v) = 5
    /\ result.v[1][1].x9drop
    /\ result.v[2][1].x9drop
    /\ "x5" \in result.v[1][1].lv[5].drop

-----------------------------------------------------------------------------
(* Properties of PertDropout                                               *)

\* C5: PertDropout.forward on a list of n feature maps returns a list of
\* exactly 2 lists, the first from the weak dropout and the second from the
\* strong one, each with the n perturbed maps in input order; the input list
\* is left unchanged.
C5_PertForward ==
    /\ pd_pc \in {"loop", "returned"} => pd_x = pd_x0
    /\ pd_pc = "returned" =>
          /\ Len(pd_rst) = 2
          /\ \A d \in 1..2 :
                /\ Len(pd_rst[d]) = Len(pd_x0)
                /\ \A i \in 1..Len(pd_x0) :
                      pd_rst[d][i] = Dropout(pd_x0[i], DropTags[d])
          /\ \A i \in 1..Len(pd_x0) : \A b \in 1..Len(pd_x0[i]) :
                /\ pd_rst[1][i][b].drop = {"weak"}
                /\ pd_rst[2][i][b].drop = {"strong"}

C5_Witness ==
    /\ pd_pc = "returned"
    /\ Len(pd_x0) = MaxMaps
    /\ Len(pd_rst) = 2
    /\ Len(pd_rst[2]) = MaxMaps

\* C10 as stated: for every p in [0, 1] both constructors succeed with two
\* probabilities in [0, 1], weak <= strong.
C10_EveryGapValid ==
    pd_pc # "new" =>
        /\ pd_pc # "failed"
        /\ ValidProb(pd_probs[1])
        /\ ValidProb(pd_probs[2])
        /\ pd_probs[1] <= pd_probs[2]

\* C10: for every p in [0, 1] the weak probability is in [0, 1] and no
\* greater than the strong one; the 3D PertDropout's strong probability is
\* in [0, 1] as well and it constructs; the 2D PertDropout's strong
\* probability 1.5 * p is in [0, 1] exactly when p <= 2/3, and for larger p
\* construction fails.
C10_GapValidUpToTwoThirds ==
    pd_pc # "new" =>
        /\ ValidProb(pd_probs[1])
        /\ pd_probs[1] <= pd_probs[2]
        /\ pd_probs[2] >= 0
        /\ pd_net = "VNet" => (pd_pc # "failed" /\ pd_probs[2] <= ProbOne)
        /\ pd_net = "UNet" =>
              /\ (pd_pc # "failed") <=> (3 * pd_k <= 2 * Den)
              /\ (pd_probs[2] <= ProbOne) <=> (3 * pd_k <= 2 * Den)

C10_Witness ==
    /\ pd_pc = "failed"
    /\ pd_net = "UNet"
    /\ pd_k = Den
    /\ pd_probs[2] > ProbOne

-----------------------------------------------------------------------------
(* Properties of the constructors                                          *)

Constructed == ct_outcome # "none"

\* Construction of a vnet.py class asserts exactly on an unknown
\* normalization.
AssertsOnBadNorm ==
    (ct_outcome = "AssertionError") <=> (ct_norm \notin ValidNorms)

\* Construction of Encoder / Decoder asserts exactly when feature_chns does
\* not have 5 entries.
AssertsOnBadLen == (ct_outcome = "AssertionError") <=> (ct_len # 5)

\* C6 as stated: every vnet.py block, for any number of stages, asserts
\* exactly on a normalization outside the four known values; Encoder and
\* Decoder assert exactly when feature_chns does not have 5 entries.
C6_AnyStages ==
    Constructed =>
        /\ ct_class \in VNetClasses => AssertsOnBadNorm
        /\ ct_class \in UNetClasses => AssertsOnBadLen

\* C6: VNet, DownsamplingConvBlock, UpsamplingDeconvBlock and Upsampling, and
\* ConvBlock and ResidualConvBlock for any number of stages >= 1, fail with
\* an assertion failure exactly when normalization is outside {"none",
\* "batchnorm", "groupnorm", "instancenorm"}; Encoder and Decoder fail with
\* an assertion failure exactly when feature_chns does not have 5 entries.
C6_AtLeastOneStage ==
    Constructed =>
        /\ ct_class \in {"ConvBlock", "ResidualConvBlock"} =>
              (ct_stages >= 1 => AssertsOnBadNorm)
        /\ ct_class \in VNetClasses \ {"ConvBlock", "ResidualConvBlock"} =>
              AssertsOnBadNorm
        /\ ct_class \in UNetClasses => AssertsOnBadLen

C6_Witness ==
    /\ ct_class = "ResidualConvBlock"
    /\ ct_stages = 2
    /\ ct_norm = "layernorm"
    /\ ct_outcome = "AssertionError"

-----------------------------------------------------------------------------
(* Properties of the shapes                                                *)

MultiplesOf16 == \A i \in 1..Len(sh_in.sp) : sh_in.sp[i] % 16 = 0

\* C7: for an input whose spatial sizes are positive multiples of 16, at
\* every decoder stage the upsampled tensor and the pyramid level it is fused
\* with (stage k with level 4-k, counting levels from 0) have the same batch,
\* channel count and spatial sizes, no layer rejects its input, and the
\* output has the input's batch and spatial sizes with class_num channels.
C7_SkipShapesAgree ==
    MultiplesOf16 =>
        /\ sh_pc # "error"
        /\ sh_pc # "encode" => Len(sh_feats) = NumLevels
        /\ \A k \in 1..Len(sh_fused) :
              /\ sh_fused[k][1] = sh_fused[k][2]
              /\ sh_fused[k][2] = sh_feats[NumLevels - k]
        /\ sh_pc = "done" =>
              /\ Len(sh_fused) = 4
              /\ sh_out = [b |-> sh_in.b, c |-> sh_cls, sp |-> sh_in.sp]

C7_Witness ==
    /\ sh_pc = "done"
    /\ sh_net = "VNet"
    /\ sh_in.sp = <<16, 48, 32>>
    /\ Len(sh_fused) = 4
    /\ sh_out.sp = <<16, 48, 32>>

====
